---------------------------- MODULE Spec2Model ----------------------------
(***************************************************************************)
(* A model of the raytracer of daviskauffmann/raytracer.  The repository   *)
(* holds two programs: the Whitted-style tracer of main.c (Policy A,       *)
(* src/src/main.c lines 1-492) and the stochastic diffuse tracer of        *)
(* main.cpp (Policy B, src/src/main.c lines 494-828).                      *)
(*                                                                         *)
(* Numbers.  The programs compute in IEEE single precision.  The model     *)
(* computes in a decimal fixed-point format with the same special values:  *)
(* a finite number is an integer count of 1/Q units with magnitude at most *)
(* FltMax, every operation rounds its exact result to the nearest          *)
(* representable number and overflows to an infinity, and NaN, +Inf and    *)
(* -Inf propagate and compare as IEEE 754 says.                            *)
(***************************************************************************)
EXTENDS Integers, Sequences, FiniteSets, TLC

\* a local of the source: its initializer v is evaluated once, where the
\* declaration stands, and F is the code that follows with the local in scope
With(v, F(_)) == CHOOSE r \in {F(b) : b \in {v}} : TRUE
\* the two operands of an arithmetic operation, each evaluated once
With2(u, v, F(_, _)) == CHOOSE r \in {F(a, b) : a \in {u}, b \in {v}} : TRUE

(***************************************************************************)
(* The number format                                                       *)
(***************************************************************************)
Q == 1000
FltMax == 2000000000
PInf == FltMax + 1
NInf == -(FltMax + 1)
NaN == FltMax + 2

Abs(n) == IF n < 0 THEN -n ELSE n
Sgn(n) == IF n < 0 THEN -1 ELSE IF n > 0 THEN 1 ELSE 0
IsNaN(a) == a = NaN
IsFinite(a) == a >= -FltMax /\ a <= FltMax
Saturate(n) ==
    With(n, LAMBDA m : IF m > FltMax THEN PInf ELSE IF m < -FltMax THEN NInf ELSE m)
SignedInf(s) == IF s < 0 THEN NInf ELSE PInf

\* a literal of the source, given in thousandths
Lit(n) == n
\* an int converted to float
IntToF(n) == Saturate(n * Q)

FNeg(a) == With(a, LAMBDA v : IF v = NaN THEN NaN ELSE -v)

FAdd(u, v) == With2(u, v, LAMBDA a, b :
    IF a = NaN \/ b = NaN THEN NaN
    ELSE IF a = PInf THEN (IF b = NInf THEN NaN ELSE PInf)
    ELSE IF a = NInf THEN (IF b = PInf THEN NaN ELSE NInf)
    ELSE IF b = PInf \/ b = NInf THEN b
    ELSE IF a > 0 /\ b > FltMax - a THEN PInf
    ELSE IF a < 0 /\ b < (-FltMax) - a THEN NInf
    ELSE a + b)

FSub(a, b) == FAdd(a, FNeg(b))

\* |a| * |b| / Q for finite magnitudes, rounded to nearest, without leaving
\* 32-bit integers
MulMagnitude(a, b) ==
    LET lo == IF a < b THEN a ELSE b
        hi == IF a < b THEN b ELSE a
        hq == hi \div Q
        hr == hi % Q
    IN  IF lo = 0 THEN 0
        ELSE IF lo > 2000000 THEN PInf
        ELSE IF hq > FltMax \div lo THEN PInf
        ELSE Saturate(lo * hq + (lo * hr + Q \div 2) \div Q)

FMul(u, v) == With2(u, v, LAMBDA a, b :
    IF a = NaN \/ b = NaN THEN NaN
    ELSE IF ~IsFinite(a) \/ ~IsFinite(b)
         THEN (IF a = 0 \/ b = 0 THEN NaN ELSE SignedInf(Sgn(a) * Sgn(b)))
    ELSE With(MulMagnitude(Abs(a), Abs(b)), LAMBDA m :
             IF Sgn(a) * Sgn(b) < 0 THEN -m ELSE m))

\* |a| / |b| * Q for finite magnitudes, b > 0, rounded to nearest
DivMagnitude(a, b) ==
    LET q == a \div b
        r == a % b
        frac == IF b <= 2000000 THEN (r * Q + b \div 2) \div b
                ELSE r \div (b \div Q)
    IN  IF q > FltMax \div Q THEN PInf ELSE Saturate(q * Q + frac)

FDiv(u, v) == With2(u, v, LAMBDA a, b :
    IF a = NaN \/ b = NaN THEN NaN
    ELSE IF ~IsFinite(a) THEN (IF ~IsFinite(b) THEN NaN
                               ELSE SignedInf(Sgn(a) * (IF b < 0 THEN -1 ELSE 1)))
    ELSE IF ~IsFinite(b) THEN 0
    ELSE IF b = 0 THEN (IF a = 0 THEN NaN ELSE SignedInf(Sgn(a)))
    ELSE With(DivMagnitude(Abs(a), Abs(b)), LAMBDA m :
             IF Sgn(a) * Sgn(b) < 0 THEN -m ELSE m))

RECURSIVE ISqrtSearch(_, _, _)
ISqrtSearch(n, lo, hi) ==
    IF lo >= hi THEN lo
    ELSE With((lo + hi + 1) \div 2, LAMBDA mid :
             IF mid * mid <= n THEN ISqrtSearch(n, mid, hi)
             ELSE ISqrtSearch(n, lo, mid - 1))

\* the integer part of the square root of n >= 0
ISqrt(n) == ISqrtSearch(n, 0, IF n < 46340 THEN n ELSE 46340)

FSqrt(v) == With(v, LAMBDA a :
    IF a = NaN \/ a < 0 THEN NaN
    ELSE IF a = PInf THEN PInf
    ELSE IF a <= 2000000 THEN ISqrt(a * Q)
    ELSE ISqrt(a \div 10) * 100)

\* comparisons: every comparison with a NaN is false
FLt(u, v) == With2(u, v, LAMBDA a, b : a # NaN /\ b # NaN /\ a < b)
FGt(a, b) == FLt(b, a)
FGe(u, v) == With2(u, v, LAMBDA a, b : a # NaN /\ b # NaN /\ a >= b)
FLe(a, b) == FGe(b, a)

\* the max and min macros: ((a) > (b) ? (a) : (b)), ((a) < (b) ? (a) : (b))
max(u, v) == With2(u, v, LAMBDA a, b : IF FGt(a, b) THEN a ELSE b)
min(u, v) == With2(u, v, LAMBDA a, b : IF FLt(a, b) THEN a ELSE b)

\* powf(x, 2)
Sq(v) == With(v, LAMBDA x : FMul(x, x))

\* powf(b, n) for a whole exponent n >= 0, by repeated squaring
RECURSIVE powf(_, _)
powf(b, n) ==
    IF n = 0 THEN Q
    ELSE IF n % 2 = 1 THEN FMul(b, powf(b, n - 1))
    ELSE Sq(powf(b, n \div 2))

(***************************************************************************)
(* Policy A: vectors (struct vec3) and their operations                    *)
(***************************************************************************)
Vec(x, y, z) == [x |-> x, y |-> y, z |-> z]

vec3_length(u) == With(u, LAMBDA v : FSqrt(FAdd(FAdd(Sq(v.x), Sq(v.y)), Sq(v.z))))

vec3_normalize(u) ==
    With2(u, vec3_length(u), LAMBDA v, length :
        Vec(FDiv(v.x, length), FDiv(v.y, length), FDiv(v.z, length)))

vec3_dot(u, v) == With2(u, v, LAMBDA a, b :
    FAdd(FAdd(FMul(a.x, b.x), FMul(a.y, b.y)), FMul(a.z, b.z)))

vec3_inverse(u) == With(u, LAMBDA v : Vec(FNeg(v.x), FNeg(v.y), FNeg(v.z)))

vec3_sub(u, v) == With2(u, v, LAMBDA a, b :
    Vec(FSub(a.x, b.x), FSub(a.y, b.y), FSub(a.z, b.z)))

vec3_reflect(I, N) ==
    With(vec3_dot(I, N), LAMBDA dot :
        Vec(FSub(I.x, FMul(FMul(N.x, 2 * Q), dot)),
            FSub(I.y, FMul(FMul(N.y, 2 * Q), dot)),
            FSub(I.z, FMul(FMul(N.z, 2 * Q), dot))))

RECURSIVE vec3_refract(_, _, _, _)
vec3_refract(I, N, eta_t, eta_i) ==
    With(FNeg(max(-Q, min(Q, vec3_dot(I, N)))), LAMBDA cosi :
        IF FLt(cosi, 0) THEN vec3_refract(I, vec3_inverse(N), eta_i, eta_t)
        ELSE With(FDiv(eta_i, eta_t), LAMBDA eta :
             With(FSub(Q, FMul(Sq(eta), FSub(Q, Sq(cosi)))), LAMBDA k :
             With(FSub(FMul(eta, cosi), FSqrt(k)), LAMBDA w :
                 IF FLt(k, 0) THEN Vec(Q, 0, 0)
                 ELSE Vec(FAdd(FMul(I.x, eta), FMul(N.x, w)),
                          FAdd(FMul(I.y, eta), FMul(N.y, w)),
                          FAdd(FMul(I.z, eta), FMul(N.z, w)))))))

(***************************************************************************)
(* Policy A: materials, spheres, lights                                    *)
(***************************************************************************)
\* struct material, by name: albedo (x, y, z, w), diffuse, specular_exponent
\* (a whole number in every material of the program), refractive_index
Materials ==
    [ivory  |-> [albedo |-> <<600, 300, 100, 0>>, diffuse |-> Vec(400, 400, 300),
                 specular_exponent |-> 50, refractive_index |-> 1000],
     glass  |-> [albedo |-> <<0, 500, 100, 800>>, diffuse |-> Vec(600, 700, 800),
                 specular_exponent |-> 125, refractive_index |-> 1500],
     rubber |-> [albedo |-> <<900, 100, 0, 0>>, diffuse |-> Vec(300, 100, 100),
                 specular_exponent |-> 10, refractive_index |-> 1000],
     mirror |-> [albedo |-> <<0, 10000, 800, 0>>, diffuse |-> Vec(1000, 1000, 1000),
                 specular_exponent |-> 1425, refractive_index |-> 1000]]

\* struct sphere: center, radius, material (a pointer: here the material's name)
Sphere(c, r, m) == [center |-> c, radius |-> r, material |-> m]
\* struct light
Light(p, i) == [position |-> p, intensity |-> i]

\* a vec3 that has not been assigned
Unset == Vec(0, 0, 0)

(***************************************************************************)
(* Policy A: sphere_ray_intersect and scene_intersect                      *)
(***************************************************************************)
\* the result is the returned bool and the value left in *t0 (not assigned
\* on the first early return, where the caller does not read it)
sphere_ray_intersect(sphere, origin, direction) ==
    With(vec3_sub(sphere.center, origin), LAMBDA L :
    With(vec3_dot(L, direction), LAMBDA tca :
    With(FSub(vec3_dot(L, L), Sq(tca)), LAMBDA d2 :
    With(Sq(sphere.radius), LAMBDA r2 :
    With(FSqrt(FSub(r2, d2)), LAMBDA thc :
    With(FSub(tca, thc), LAMBDA t0 :
    With(FAdd(tca, thc), LAMBDA t1 :
    With(IF FLt(t0, 0) THEN t1 ELSE t0, LAMBDA t :
        IF FGt(d2, r2) THEN [ok |-> FALSE, t0 |-> 0]
        ELSE [ok |-> ~FLt(t, 0), t0 |-> t]))))))))

\* the running minimum is not consulted: every sphere that is hit replaces
\* the closest so far
scene_closer_last(dist_i, spheres_dist) == TRUE

\* line 153: the test that a sphere's hit replaces the closest so far
scene_closer(dist_i, spheres_dist) == FLt(dist_i, spheres_dist)

\* line 166: the returned bool
FarLimit == 1000
scene_found(spheres_dist) == FLt(spheres_dist, FarLimit * Q)

\* the loop of scene_intersect from sphere i on; acc holds spheres_dist and
\* the out parameters as assigned so far (prim: the index of the sphere that
\* assigned them, 0 when none has)
RECURSIVE scene_scan(_, _, _, _, _)
scene_scan(origin, direction, spheres, i, acc) ==
    IF i > Len(spheres) THEN acc
    ELSE With(sphere_ray_intersect(spheres[i], origin, direction), LAMBDA r :
         With(Vec(FAdd(origin.x, FMul(direction.x, r.t0)),
                  FAdd(origin.y, FMul(direction.y, r.t0)),
                  FAdd(origin.z, FMul(direction.z, r.t0))), LAMBDA hit :
         With(IF r.ok /\ scene_closer(r.t0, acc.spheres_dist)
              THEN [spheres_dist |-> r.t0, hit |-> hit,
                    N |-> vec3_normalize(vec3_sub(hit, spheres[i].center)),
                    material |-> spheres[i].material, prim |-> i]
              ELSE acc, LAMBDA next :
             scene_scan(origin, direction, spheres, i + 1, next))))

scene_intersect(origin, direction, spheres) ==
    With(scene_scan(origin, direction, spheres, 1,
                    [spheres_dist |-> FltMax, hit |-> Unset, N |-> Unset,
                     material |-> "none", prim |-> 0]), LAMBDA acc :
        [ok |-> scene_found(acc.spheres_dist), spheres_dist |-> acc.spheres_dist,
         hit |-> acc.hit, N |-> acc.N, material |-> acc.material, prim |-> acc.prim])

(***************************************************************************)
(* Policy A: the body of cast_ray                                          *)
(***************************************************************************)
\* line 177: the depth test that guards scene_intersect (depth <= 4)
MaxDepthA == 4

\* the test lets one generation more through
cast_depth_ok_one_more(depth) == depth <= MaxDepthA + 1

cast_depth_ok(depth) == depth <= MaxDepthA

\* lines 181-189, 194-202, 217-225: point - N * 1e-3f when the new direction
\* opposes N, point + N * 1e-3f otherwise; 1e-3f is one unit of the format
Epsilon == 1
bias_origin(point, N, dir) ==
    IF FLt(vec3_dot(dir, N), 0)
    THEN Vec(FSub(point.x, FMul(N.x, Epsilon)), FSub(point.y, FMul(N.y, Epsilon)),
             FSub(point.z, FMul(N.z, Epsilon)))
    ELSE Vec(FAdd(point.x, FMul(N.x, Epsilon)), FAdd(point.y, FMul(N.y, Epsilon)),
             FAdd(point.z, FMul(N.z, Epsilon)))

\* lines 179-190: the reflection ray
reflect_ray(direction, point, N) ==
    With(vec3_normalize(vec3_reflect(direction, N)), LAMBDA reflect_direction :
        [origin |-> bias_origin(point, N, reflect_direction),
         direction |-> reflect_direction])

\* lines 192-203: the refraction ray
refract_ray(direction, point, N, material) ==
    With(vec3_normalize(vec3_refract(direction, N,
                                     Materials[material].refractive_index, Q)),
         LAMBDA refract_direction :
        [origin |-> bias_origin(point, N, refract_direction),
         direction |-> refract_direction])

\* lines 209-229: the shadow ray of one light and what scene_intersect says of it
shadow_test(point, N, spheres, light) ==
    With(vec3_sub(light.position, point), LAMBDA to_light :
    With(vec3_length(to_light), LAMBDA light_distance :
    With(vec3_normalize(to_light), LAMBDA light_direction :
    With(bias_origin(point, N, light_direction), LAMBDA shadow_origin :
    With(scene_intersect(shadow_origin, light_direction, spheres), LAMBDA sh :
        [light_direction |-> light_direction, light_distance |-> light_distance,
         shadow_origin |-> shadow_origin, found |-> sh.ok,
         shadow_dist |-> vec3_length(vec3_sub(sh.hit, shadow_origin))])))))

\* lines 229-239: the light is skipped (continue)
light_skipped(st) == st.found /\ FLt(st.shadow_dist, st.light_distance)

\* lines 241-246 and 247-256: what one light that is not skipped adds
diffuse_term(st, N, light) ==
    FMul(max(0, vec3_dot(st.light_direction, N)), light.intensity)
specular_term(st, N, direction, material, light) ==
    FMul(powf(max(0, vec3_dot(vec3_reflect(st.light_direction, N), direction)),
              Materials[material].specular_exponent),
         light.intensity)

\* lines 205-257: the light loop from light i on.  acc holds the two running
\* intensities and, per light already visited, whether it was skipped and what
\* it added (seen: a record of the loop, not a variable of the program)
RECURSIVE light_loop(_, _, _, _, _, _, _, _)
light_loop(point, N, direction, material, spheres, lights, i, acc) ==
    IF i > Len(lights) THEN acc
    ELSE With(shadow_test(point, N, spheres, lights[i]), LAMBDA st :
         With(light_skipped(st), LAMBDA skip :
         With(IF skip THEN 0 ELSE diffuse_term(st, N, lights[i]), LAMBDA d :
         With(IF skip THEN 0
              ELSE specular_term(st, N, direction, material, lights[i]), LAMBDA sp :
         With([diffuse_light_intensity |->
                   IF skip THEN acc.diffuse_light_intensity
                   ELSE FAdd(acc.diffuse_light_intensity, d),
               specular_light_intensity |->
                   IF skip THEN acc.specular_light_intensity
                   ELSE FAdd(acc.specular_light_intensity, sp),
               seen |-> Append(acc.seen,
                               [skipped |-> skip, diffuse |-> d, specular |-> sp])],
              LAMBDA next :
             light_loop(point, N, direction, material, spheres, lights, i + 1,
                        next))))))

shade_lights(point, N, direction, material, spheres, lights) ==
    light_loop(point, N, direction, material, spheres, lights, 1,
               [diffuse_light_intensity |-> 0, specular_light_intensity |-> 0,
                seen |-> <<>>])

\* lines 259-270: one channel of the colour of a hit
channel(diffuse, li, m, reflect_c, refract_c) ==
    FAdd(FAdd(FAdd(FMul(FMul(diffuse, li.diffuse_light_intensity), m.albedo[1]),
                   FMul(li.specular_light_intensity, m.albedo[2])),
              FMul(reflect_c, m.albedo[3])),
         FMul(refract_c, m.albedo[4]))

hit_color(li, material, reflect_color, refract_color) ==
    With(Materials[material], LAMBDA m :
        Vec(channel(m.diffuse.x, li, m, reflect_color.x, refract_color.x),
            channel(m.diffuse.y, li, m, reflect_color.y, refract_color.y),
            channel(m.diffuse.z, li, m, reflect_color.z, refract_color.z)))

\* lines 272-277: the colour of a ray that hits nothing or is too deep
BackgroundA == Vec(200, 700, 800)

(***************************************************************************)
(* Policy B: the generator, glm::vec3, ray, hit_record, sphere, world      *)
(***************************************************************************)
\* lines 519-524: random_float draws from a static std::mt19937 through a static
\* uniform_real_distribution<float>(0, 1).  The generator is deterministic
\* state that every draw advances; the model keeps that with a full-period
\* congruential generator of 16 states, the draw being state / 16 in [0, 1).
gen_advance(g) == (5 * g + 3) % 16
gen_value(g) == (g * Q) \div 16
random_float(g) ==
    With(gen_advance(g), LAMBDA advanced :
        [value |-> gen_value(advanced), gen |-> advanced])

\* lines 526-529: random_float(min, max), given the draw
random_float_in(lo, hi, draw) == FAdd(lo, FMul(FSub(hi, lo), draw))

glm_add(u, v) == With2(u, v, LAMBDA a, b :
    Vec(FAdd(a.x, b.x), FAdd(a.y, b.y), FAdd(a.z, b.z)))
glm_sub(u, v) == With2(u, v, LAMBDA a, b :
    Vec(FSub(a.x, b.x), FSub(a.y, b.y), FSub(a.z, b.z)))
glm_scale(u, w) == With2(u, w, LAMBDA v, k :
    Vec(FMul(v.x, k), FMul(v.y, k), FMul(v.z, k)))
glm_div(u, w) == With2(u, w, LAMBDA v, k :
    Vec(FDiv(v.x, k), FDiv(v.y, k), FDiv(v.z, k)))
glm_neg(u) == With(u, LAMBDA v : Vec(FNeg(v.x), FNeg(v.y), FNeg(v.z)))
glm_dot(u, v) == With2(u, v, LAMBDA a, b :
    FAdd(FAdd(FMul(a.x, b.x), FMul(a.y, b.y)), FMul(a.z, b.z)))
\* glm::normalize(v) is v * inversesqrt(dot(v, v))
glm_normalize(u) ==
    With(u, LAMBDA v :
    With(FDiv(Q, FSqrt(glm_dot(v, v))), LAMBDA inversesqrt : glm_scale(v, inversesqrt)))
\* glm::clamp(x, lo, hi) is min(max(x, lo), hi), with glm's min and max
glm_clamp(x, lo, hi) ==
    With(IF FLt(x, lo) THEN lo ELSE x, LAMBDA m : IF FLt(hi, m) THEN hi ELSE m)

\* class ray
Ray(origin, direction) == [origin |-> origin, direction |-> direction]
ray_at(r, t) == glm_add(r.origin, glm_scale(r.direction, t))

\* struct hit_record; NoRecord is a record nothing has been written to
NoRecord == [distance |-> 0, point |-> Unset, normal |-> Unset, front_face |-> FALSE]

\* the outward normal is stored whichever side the ray comes from
set_face_normal_unflipped(record, r, outward_normal) ==
    [record EXCEPT !.front_face = FLt(glm_dot(r.direction, outward_normal), 0),
                   !.normal = outward_normal]

\* lines 593-597
set_face_normal(record, r, outward_normal) ==
    With(FLt(glm_dot(r.direction, outward_normal), 0), LAMBDA front_face :
        [record EXCEPT !.front_face = front_face,
                       !.normal = IF front_face THEN outward_normal
                                  ELSE glm_neg(outward_normal)])

\* lines 669 and 672: the root is rejected
root_outside(root, t_min, t_max) == FLt(root, t_min) \/ FLt(t_max, root)

\* lines 656-681: sphere::hit.  The result is the returned bool and the record
\* as the call leaves it; a and divided say what the quadratic's leading
\* coefficient was and whether the call divided by it, discriminant and
\* roots what the call computed for them
sphere_hit(sph, r, t_min, t_max, record) ==
    With(glm_sub(r.origin, sph.center), LAMBDA oc :
    With(glm_dot(r.direction, r.direction), LAMBDA a :
    With(glm_dot(oc, r.direction), LAMBDA half_b :
    With(FSub(glm_dot(oc, oc), Sq(sph.radius)), LAMBDA c :
    With(FSub(Sq(half_b), FMul(a, c)), LAMBDA discriminant :
    With(FSqrt(discriminant), LAMBDA sqrtd :
    With(FDiv(FSub(FNeg(half_b), sqrtd), a), LAMBDA root0 :
    With(FDiv(FAdd(FNeg(half_b), sqrtd), a), LAMBDA root1 :
    With(IF root_outside(root0, t_min, t_max) THEN root1 ELSE root0, LAMBDA root :
    With(glm_add(r.origin, glm_scale(r.direction, root)), LAMBDA point :
        IF FLt(discriminant, 0)
        THEN [ok |-> FALSE, record |-> record, a |-> a, divided |-> FALSE,
              discriminant |-> discriminant, roots |-> <<root0, root1>>]
        ELSE IF root_outside(root0, t_min, t_max) /\ root_outside(root1, t_min, t_max)
        THEN [ok |-> FALSE, record |-> record, a |-> a, divided |-> TRUE,
              discriminant |-> discriminant, roots |-> <<root0, root1>>]
        ELSE [ok |-> TRUE, a |-> a, divided |-> TRUE,
              discriminant |-> discriminant, roots |-> <<root0, root1>>,
              record |-> set_face_normal(
                             [record EXCEPT !.distance = root, !.point = point],
                             r, glm_div(glm_sub(point, sph.center), sph.radius))]
    ))))))))))

\* lines 633-641: the loop of world::hit from object i on (prim: the index of
\* the object whose hit the record holds, 0 when none)
RECURSIVE world_scan(_, _, _, _, _)
world_scan(objects, r, t_min, i, acc) ==
    IF i > Len(objects) THEN acc
    ELSE With(sphere_hit(objects[i], r, t_min, acc.closest_so_far, acc.temp_record),
              LAMBDA h :
         With(IF h.ok
              THEN [hit_anything |-> TRUE, closest_so_far |-> h.record.distance,
                    temp_record |-> h.record, record |-> h.record, prim |-> i]
              ELSE acc, LAMBDA next :
             world_scan(objects, r, t_min, i + 1, next)))

\* lines 627-644: world::hit
world_hit(objects, r, t_min, t_max, record) ==
    With(world_scan(objects, r, t_min, 1,
                    [hit_anything |-> FALSE, closest_so_far |-> t_max,
                     temp_record |-> NoRecord, record |-> record, prim |-> 0]),
         LAMBDA acc :
        [ok |-> acc.hit_anything, record |-> acc.record, prim |-> acc.prim])

(***************************************************************************)
(* Policy B: camera and raytrace                                           *)
(***************************************************************************)
\* lines 687-699: the camera of a width x height window
camera(width, height) ==
    With(FDiv(IntToF(width), IntToF(height)), LAMBDA aspect_ratio :
    With(2 * Q, LAMBDA viewport_height :
    With(FMul(aspect_ratio, viewport_height), LAMBDA viewport_width :
    With(Vec(0, 0, 0), LAMBDA origin :
    With(Vec(viewport_width, 0, 0), LAMBDA horizontal :
    With(Vec(0, viewport_height, 0), LAMBDA vertical :
        [origin |-> origin, horizontal |-> horizontal, vertical |-> vertical,
         lower_left |-> glm_sub(glm_sub(glm_sub(origin, glm_scale(horizontal, 500)),
                                        glm_scale(vertical, 500)),
                                Vec(0, 0, Q))]))))))

\* lines 701-704
get_ray(c, u, v) ==
    With(c, LAMBDA cam :
        Ray(cam.origin,
            glm_sub(glm_add(glm_add(cam.lower_left, glm_scale(cam.horizontal, u)),
                            glm_scale(cam.vertical, v)),
                    cam.origin)))

\* the test is passed by a budget of 0
depth_exhausted_below_zero(depth) == depth < 0

\* the test is passed by every budget
depth_exhausted_never(depth) == FALSE

\* line 715: the depth budget is exhausted
depth_exhausted(depth) == depth <= 0

\* line 721: the interval raytrace searches
TMin == 1
TMax == PInf

\* lines 723-724: the ray scattered from a hit, given random_unit_vector()
scatter_ray(record, unit) ==
    With(glm_add(glm_add(record.point, record.normal), unit), LAMBDA target :
        Ray(record.point, glm_sub(target, record.point)))

\* lines 727-729: the background gradient
background_b(r) ==
    With(glm_normalize(r.direction), LAMBDA unit_direction :
    With(FMul(500, FAdd(unit_direction.y, Q)), LAMBDA t :
        glm_add(glm_scale(Vec(Q, Q, Q), FSub(Q, t)), glm_scale(Vec(500, 700, Q), t))))

Black == Vec(0, 0, 0)

(***************************************************************************)
(* The programs as state machines                                          *)
(***************************************************************************)
\* WINDOW_WIDTH x WINDOW_HEIGHT is 640 x 400 in both programs; the model
\* renders a Width x Height window
Width == 2
Height == 2
\* the depth budgets the frame loop of Policy B hands to raytrace (max_depth
\* is 50 in the program): 0 .. MaxBudget
MaxBudget == 2
\* line 508
samples_per_pixel == 100

VARIABLES
    policy,        \* "A": main.c, "B": main.cpp
    spheres,       \* A: spheres[]; B: world.objects
    lights,        \* A: lights[]
    max_depth,     \* B: the budget passed to raytrace
    gen,           \* B: the state of the static generator of random_float
    arg_order,     \* B: the build evaluates constructor arguments left to right
    pc,            \* "pixel", "cast", "samples", "trace", "main", "exit"
    x, y,          \* the counters of the frame loop
    s,             \* B: the sample counter
    color,         \* B: the colour accumulated for the pixel
    stack,         \* the activation records of cast_ray / raytrace, outermost first
    pixel_buffer,  \* pixel_buffer / pixels
    quit,          \* the main loop's flag
    written,       \* per buffer index, the writes made to it: for each, the
                   \* number of primary rays cast for the pixel before it
    primary,       \* primary rays cast for the pixel being computed
    access,        \* per pixel <<x, y>>, the shared objects its computation read
                   \* and wrote
    rendered_y,    \* spheres[0]'s center.y when the buffer was last written
    presented,     \* what the last SDL_RenderPresent showed
    probe          \* the intersection query in progress (HitSpec)

vars == <<policy, spheres, lights, max_depth, gen, arg_order, pc, x, y, s, color, stack,
          pixel_buffer, quit, written, primary, access, rendered_y, presented,
          probe>>

scene == <<policy, spheres, lights, max_depth>>

\* the cells of the buffer; malloc and new[] leave them indeterminate
Cells == 0 .. (Width * Height - 1)
\* the pixels of the window, <<x, y>>
Pixels == (0 .. (Width - 1)) \X (0 .. (Height - 1))
Indeterminate == [r |-> -1, g |-> -1, b |-> -1]

\* the row is not scaled by the width
pixel_index_no_stride(px, py) == px + py

\* the index runs down the columns
pixel_index_column_major(px, py) == py + px * Height

\* lines 443 and 785: the index of pixel (x, y)
pixel_index(px, py) == px + py * Width

\* the shared objects a pixel's computation touches
ObjSpheres == <<"spheres", 0>>
ObjLights == <<"lights", 0>>
ObjGenerator == <<"generator", 0>>
ObjPixel(i) == <<"pixel", i>>
NoAccess == [reads |-> {}, writes |-> {}]
Touch(acc, i, rd, wr) ==
    [acc EXCEPT ![i] = [reads |-> @.reads \cup rd, writes |-> @.writes \cup wr]]

\* (uint8_t)(0xff * c): the outcomes of the conversion; it is undefined when
\* the truncated value is not a uint8_t, and then any byte may result (the
\* model keeps the two extreme ones)
to_uint8(c) ==
    With(FMul(255 * Q, c), LAMBDA v :
        IF IsFinite(v) /\ v >= 0 /\ v \div Q <= 255 THEN {v \div Q} ELSE {0, 255})

\* the write of one pixel: the buffer and the record of writes
write_pixel(buf, i, r, g, b) ==
    IF i \in DOMAIN buf THEN [buf EXCEPT ![i] = [r |-> r, g |-> g, b |-> b]] ELSE buf
log_write(w, i, n) ==
    IF i \in DOMAIN w THEN [w EXCEPT ![i] = Append(@, n)] ELSE w @@ (i :> <<n>>)

\* the frame loop's counters after pixel (x, y)
next_x == IF x + 1 < Width THEN x + 1 ELSE 0
next_y == IF x + 1 < Width THEN y ELSE y + 1
next_pc == IF x + 1 < Width \/ y + 1 < Height THEN "pixel" ELSE "main"

(***************************************************************************)
(* Policy A: main.c                                                        *)
(***************************************************************************)
\* line 430: tanf(fov / 2) with fov = pi / 3
TanHalfFov == 577

\* lines 427-431: the primary ray's direction
primary_direction(px, py) ==
    vec3_normalize(
        Vec(FSub(FAdd(IntToF(px), 500), FDiv(IntToF(Width), 2 * Q)),
            FAdd(FNeg(FAdd(IntToF(py), 500)), FDiv(IntToF(Height), 2 * Q)),
            FDiv(FNeg(IntToF(Height)), FMul(2 * Q, TanHalfFov))))

\* an activation record of cast_ray.  stage: "call" (entered), "reflect"
\* (waiting for the reflection ray's colour), "refract" (waiting for the
\* refraction ray's colour), "ret" (returning color).  tested: scene_intersect
\* was evaluated for this ray; seen: the light loop's record when it shaded
FrameA(origin, direction, depth) ==
    [origin |-> origin, direction |-> direction, depth |-> depth, stage |-> "call",
     tested |-> FALSE, point |-> Unset, N |-> Unset, material |-> "none",
     reflect_color |-> Unset, color |-> Unset, seen |-> <<>>]

Top == stack[Len(stack)]
Pop == SubSeq(stack, 1, Len(stack) - 1)
SetTop(f) == [stack EXCEPT ![Len(stack)] = f]

\* the recursion never needs more records than this; a call beyond it blocks
StackCap == 8

\* lines 423-433: the loop body up to the call cast_ray(origin, direction, ..., 0)
A_PixelStart ==
    /\ policy = "A" /\ pc = "pixel"
    /\ stack' = <<FrameA(Vec(0, 0, 0), primary_direction(x, y), 0)>>
    /\ primary' = 1
    /\ pc' = "cast"
    /\ UNCHANGED <<scene, arg_order, gen, x, y, s, color, pixel_buffer, quit, written, access,
                   rendered_y, presented, probe>>

\* line 177 true, lines 179-190: the ray hits; cast_ray calls itself for the
\* reflection ray
A_CallHit ==
    /\ policy = "A" /\ pc = "cast" /\ Top.stage = "call"
    /\ Len(stack) < StackCap
    /\ cast_depth_ok(Top.depth)
    /\ \E si \in {scene_intersect(Top.origin, Top.direction, spheres)} :
       \E rr \in {reflect_ray(Top.direction, si.hit, si.N)} :
           /\ si.ok
           /\ stack' = Append(SetTop([Top EXCEPT !.stage = "reflect", !.tested = TRUE,
                                                 !.point = si.hit, !.N = si.N,
                                                 !.material = si.material]),
                              FrameA(rr.origin, rr.direction, Top.depth + 1))
    /\ access' = Touch(access, <<x, y>>, {ObjSpheres}, {})
    /\ UNCHANGED <<scene, arg_order, gen, pc, x, y, s, color, pixel_buffer, quit, written,
                   primary, rendered_y, presented, probe>>

\* line 177 false, lines 272-277: too deep (scene_intersect is not evaluated)
\* or nothing hit
A_CallMiss ==
    /\ policy = "A" /\ pc = "cast" /\ Top.stage = "call"
    /\ ~(cast_depth_ok(Top.depth)
         /\ scene_intersect(Top.origin, Top.direction, spheres).ok)
    /\ stack' = SetTop([Top EXCEPT !.stage = "ret", !.color = BackgroundA,
                                   !.tested = cast_depth_ok(Top.depth)])
    /\ access' = Touch(access, <<x, y>>,
                       IF cast_depth_ok(Top.depth) THEN {ObjSpheres} ELSE {}, {})
    /\ UNCHANGED <<scene, arg_order, gen, pc, x, y, s, color, pixel_buffer, quit, written,
                   primary, rendered_y, presented, probe>>

\* line 190 returns, lines 192-203: cast_ray calls itself for the refraction ray
A_ReflectReturn ==
    /\ policy = "A" /\ pc = "cast" /\ Len(stack) >= 2 /\ Top.stage = "ret"
    /\ \E caller \in {stack[Len(stack) - 1]} :
           /\ caller.stage = "reflect"
           /\ \E fr \in {refract_ray(caller.direction, caller.point, caller.N,
                                     caller.material)} :
              stack' = [stack EXCEPT
                  ![Len(stack) - 1] = [caller EXCEPT !.stage = "refract",
                                                     !.reflect_color = Top.color],
                  ![Len(stack)] = FrameA(fr.origin, fr.direction, caller.depth + 1)]
    /\ UNCHANGED <<scene, arg_order, gen, pc, x, y, s, color, pixel_buffer, quit, written,
                   primary, access, rendered_y, presented, probe>>

\* line 203 returns, lines 205-270: the light loop and the colour of the hit
A_RefractReturn ==
    /\ policy = "A" /\ pc = "cast" /\ Len(stack) >= 2 /\ Top.stage = "ret"
    /\ \E caller \in {stack[Len(stack) - 1]} :
           /\ caller.stage = "refract"
           /\ \E li \in {shade_lights(caller.point, caller.N, caller.direction,
                                      caller.material, spheres, lights)} :
              stack' = [Pop EXCEPT
                  ![Len(stack) - 1] =
                      [caller EXCEPT !.stage = "ret", !.seen = li.seen,
                                     !.color = hit_color(li, caller.material,
                                                         caller.reflect_color,
                                                         Top.color)]]
    /\ access' = Touch(access, <<x, y>>, {ObjSpheres, ObjLights}, {})
    /\ UNCHANGED <<scene, arg_order, gen, pc, x, y, s, color, pixel_buffer, quit, written,
                   primary, rendered_y, presented, probe>>

\* lines 435-441: the uniform rescale
tone_map_a(c) ==
    With(max(c.x, max(c.y, c.z)), LAMBDA color_max :
        IF FGt(color_max, Q)
        THEN Vec(FDiv(c.x, color_max), FDiv(c.y, color_max), FDiv(c.z, color_max))
        ELSE c)

\* line 433 returns, lines 435-445: the pixel is written; the loops advance
A_PixelDone ==
    /\ policy = "A" /\ pc = "cast" /\ Len(stack) = 1 /\ Top.stage = "ret"
    /\ \E c \in {tone_map_a(Top.color)}, i \in {pixel_index(x, y)} :
           /\ \E r \in to_uint8(c.x), g \in to_uint8(c.y), b \in to_uint8(c.z) :
                  pixel_buffer' = write_pixel(pixel_buffer, i, r, g, b)
           /\ written' = log_write(written, i, primary)
           /\ access' = Touch(access, <<x, y>>, {}, {ObjPixel(i)})
    /\ rendered_y' = spheres[1].center.y
    /\ stack' = <<>>
    /\ x' = next_x /\ y' = next_y /\ pc' = next_pc
    /\ UNCHANGED <<scene, arg_order, gen, s, color, quit, primary, presented, probe>>

\* line 467: sinf(SDL_GetTicks() / 1000.0f) at the sampled tick counts
Ticks == {0, 524, 1571, 4712}
sinf_of_ticks(t) ==
    CASE t = 0 -> 0 [] t = 524 -> 500 [] t = 1571 -> Q [] t = 4712 -> -Q

\* lines 451-482: one turn of the main loop: the events are polled, the first
\* sphere is moved, the pixel buffer is presented
A_MainLoop ==
    /\ policy = "A" /\ pc = "main" /\ ~quit
    /\ \E ev \in BOOLEAN : quit' = ev
    /\ \E t \in Ticks :
           spheres' = [spheres EXCEPT ![1].center.y = sinf_of_ticks(t)]
    /\ presented' = [shown |-> TRUE, buffer |-> pixel_buffer,
                     center_y |-> spheres'[1].center.y]
    /\ UNCHANGED <<policy, lights, max_depth, arg_order, gen, pc, x, y, s, color, stack,
                   pixel_buffer, written, primary, access, rendered_y, probe>>

\* lines 451 and 484-491: the loop ends
MainExit ==
    /\ pc = "main" /\ quit
    /\ pc' = "exit"
    /\ UNCHANGED <<scene, arg_order, gen, x, y, s, color, stack, pixel_buffer, quit, written,
                   primary, access, rendered_y, presented, probe>>

(***************************************************************************)
(* Policy B: main.cpp                                                      *)
(***************************************************************************)
\* an activation record of raytrace.  stage: "call" (entered), "scatter" (in
\* the loop of random_in_unit_sphere), "wait" (waiting for the scattered ray's
\* colour), "ret" (returning color).  tested: world.hit was evaluated
FrameB(r, depth) ==
    [r |-> r, depth |-> depth, stage |-> "call", tested |-> FALSE,
     record |-> NoRecord, color |-> Black]

\* lines 771 and 772 (s = 0): a pixel begins
B_PixelStart ==
    /\ policy = "B" /\ pc = "pixel"
    /\ color' = Black /\ s' = 0 /\ primary' = 0
    /\ pc' = "samples"
    /\ UNCHANGED <<scene, arg_order, gen, x, y, stack, pixel_buffer, quit, written, access,
                   rendered_y, presented, probe>>

\* lines 772-777: a sample begins: two draws, the camera ray, the call
\* raytrace(ray, world, max_depth)
B_SampleStart ==
    /\ policy = "B" /\ pc = "samples" /\ s < samples_per_pixel
    /\ \E d1 \in {random_float(gen)} :
       \E d2 \in {random_float(d1.gen)} :
       \E u \in {FDiv(FAdd(IntToF(x), d1.value), IntToF(Width - 1))} :
       \E v \in {FDiv(FSub(IntToF(Height), FAdd(IntToF(y), d2.value)),
                      IntToF(Height - 1))} :
           /\ gen' = d2.gen
           /\ stack' = <<FrameB(get_ray(camera(Width, Height), u, v), max_depth)>>
    /\ primary' = primary + 1
    /\ access' = Touch(access, <<x, y>>, {ObjGenerator}, {ObjGenerator})
    /\ pc' = "trace"
    /\ UNCHANGED <<scene, arg_order, x, y, s, color, pixel_buffer, quit, written,
                   rendered_y, presented, probe>>

\* lines 715-718: no budget left: black, and world.hit is not called
B_Exhausted ==
    /\ policy = "B" /\ pc = "trace" /\ Top.stage = "call"
    /\ depth_exhausted(Top.depth)
    /\ stack' = SetTop([Top EXCEPT !.stage = "ret", !.color = Black])
    /\ UNCHANGED <<scene, arg_order, gen, pc, x, y, s, color, pixel_buffer, quit, written,
                   primary, access, rendered_y, presented, probe>>

\* lines 720-721 true: the ray hits; random_unit_vector() is entered
B_Hit ==
    /\ policy = "B" /\ pc = "trace" /\ Top.stage = "call"
    /\ ~depth_exhausted(Top.depth)
    /\ \E wh \in {world_hit(spheres, Top.r, TMin, TMax, NoRecord)} :
           /\ wh.ok
           /\ stack' = SetTop([Top EXCEPT !.stage = "scatter", !.tested = TRUE,
                                          !.record = wh.record])
    /\ access' = Touch(access, <<x, y>>, {ObjSpheres}, {})
    /\ UNCHANGED <<scene, arg_order, gen, pc, x, y, s, color, pixel_buffer, quit, written,
                   primary, rendered_y, presented, probe>>

\* lines 721 false, 727-729: the ray leaves the scene: the gradient
B_Miss ==
    /\ policy = "B" /\ pc = "trace" /\ Top.stage = "call"
    /\ ~depth_exhausted(Top.depth)
    /\ ~world_hit(spheres, Top.r, TMin, TMax, NoRecord).ok
    /\ stack' = SetTop([Top EXCEPT !.stage = "ret", !.tested = TRUE,
                                   !.color = background_b(Top.r)])
    /\ access' = Touch(access, <<x, y>>, {ObjSpheres}, {})
    /\ UNCHANGED <<scene, arg_order, gen, pc, x, y, s, color, pixel_buffer, quit, written,
                   primary, rendered_y, presented, probe>>

\* lines 536-539 and 545: random_vec3(-1, 1).  The three draws are arguments
\* of one constructor call, so the build decides which is drawn first
random_vec3_in(g, first_is_x) ==
    With(random_float(g), LAMBDA d1 :
    With(random_float(d1.gen), LAMBDA d2 :
    With(random_float(d2.gen), LAMBDA d3 :
    With(random_float_in(-Q, Q, d1.value), LAMBDA a :
    With(random_float_in(-Q, Q, d2.value), LAMBDA b :
    With(random_float_in(-Q, Q, d3.value), LAMBDA c :
        [p |-> IF first_is_x THEN Vec(a, b, c) ELSE Vec(c, b, a), gen |-> d3.gen]
    ))))))

\* line 546: the point is rejected
rejected(p) == FGe(glm_dot(p, p), Q)

\* lines 543-549: a turn of the loop of random_in_unit_sphere that rejects
B_Reject ==
    /\ policy = "B" /\ pc = "trace" /\ Top.stage = "scatter"
    /\ \E rv \in {random_vec3_in(gen, arg_order)} :
           /\ rejected(rv.p)
           /\ gen' = rv.gen
    /\ access' = Touch(access, <<x, y>>, {ObjGenerator}, {ObjGenerator})
    /\ UNCHANGED <<scene, arg_order, pc, x, y, s, color, stack, pixel_buffer, quit,
                   written, primary, rendered_y, presented, probe>>

\* lines 550, 556, 723-724: the point is returned and normalized; raytrace
\* calls itself for the scattered ray with depth - 1
B_Accept ==
    /\ policy = "B" /\ pc = "trace" /\ Top.stage = "scatter"
    /\ Len(stack) < StackCap
    /\ \E rv \in {random_vec3_in(gen, arg_order)} :
           /\ ~rejected(rv.p)
           /\ gen' = rv.gen
           /\ stack' = Append(SetTop([Top EXCEPT !.stage = "wait"]),
                              FrameB(scatter_ray(Top.record, glm_normalize(rv.p)),
                                     Top.depth - 1))
    /\ access' = Touch(access, <<x, y>>, {ObjGenerator}, {ObjGenerator})
    /\ UNCHANGED <<scene, arg_order, pc, x, y, s, color, pixel_buffer, quit, written,
                   primary, rendered_y, presented, probe>>

\* line 724: the scattered ray's colour comes back and is halved
B_Return ==
    /\ policy = "B" /\ pc = "trace" /\ Len(stack) >= 2 /\ Top.stage = "ret"
    /\ stack' = [Pop EXCEPT ![Len(stack) - 1] =
                     [@ EXCEPT !.stage = "ret", !.color = glm_scale(Top.color, 500)]]
    /\ UNCHANGED <<scene, arg_order, gen, pc, x, y, s, color, pixel_buffer, quit,
                   written, primary, access, rendered_y, presented, probe>>

\* line 777: the sample is added
B_SampleDone ==
    /\ policy = "B" /\ pc = "trace" /\ Len(stack) = 1 /\ Top.stage = "ret"
    /\ color' = glm_add(color, Top.color)
    /\ s' = s + 1
    /\ stack' = <<>>
    /\ pc' = "samples"
    /\ UNCHANGED <<scene, arg_order, gen, x, y, pixel_buffer, quit, written, primary,
                   access, rendered_y, presented, probe>>

\* lines 780-783: the average and the gamma curve
tone_map_b(c) ==
    With(FDiv(Q, IntToF(samples_per_pixel)), LAMBDA scale :
        Vec(FSqrt(FMul(c.x, scale)), FSqrt(FMul(c.y, scale)), FSqrt(FMul(c.z, scale))))

\* lines 780-787: the pixel is written; the loops advance
B_PixelDone ==
    /\ policy = "B" /\ pc = "samples" /\ s >= samples_per_pixel
    /\ \E c \in {tone_map_b(color)}, i \in {pixel_index(x, y)} :
           /\ \E r \in to_uint8(glm_clamp(c.x, 0, 999)),
                 g \in to_uint8(glm_clamp(c.y, 0, 999)),
                 b \in to_uint8(glm_clamp(c.z, 0, 999)) :
                  pixel_buffer' = write_pixel(pixel_buffer, i, r, g, b)
           /\ written' = log_write(written, i, primary)
           /\ access' = Touch(access, <<x, y>>, {}, {ObjPixel(i)})
    /\ rendered_y' = spheres[1].center.y
    /\ x' = next_x /\ y' = next_y /\ pc' = next_pc
    /\ UNCHANGED <<scene, arg_order, gen, s, color, stack, quit, primary, presented,
                   probe>>

\* lines 795-818: one turn of the main loop: the events are polled, the pixel
\* buffer is presented
B_MainLoop ==
    /\ policy = "B" /\ pc = "main" /\ ~quit
    /\ \E ev \in BOOLEAN : quit' = ev
    /\ presented' = [shown |-> TRUE, buffer |-> pixel_buffer,
                     center_y |-> spheres[1].center.y]
    /\ UNCHANGED <<scene, arg_order, gen, pc, x, y, s, color, stack, pixel_buffer,
                   written, primary, access, rendered_y, probe>>

(***************************************************************************)
(* The scenes                                                              *)
(***************************************************************************)
\* lines 361-416: the spheres and lights of main.c
ProgramSpheres ==
    <<Sphere(Vec(-3000, 0, -16000), 2000, "ivory"),
      Sphere(Vec(-1000, -1500, -12000), 2000, "mirror"),
      Sphere(Vec(1500, -500, -18000), 3000, "rubber"),
      Sphere(Vec(7000, 5000, -18000), 4000, "mirror")>>
ProgramLights ==
    <<Light(Vec(-20000, 20000, 20000), 1500),
      Light(Vec(30000, 50000, -25000), 1800),
      Light(Vec(30000, 20000, 30000), 1700)>>

ScenesA ==
    {[spheres |-> ProgramSpheres, lights |-> ProgramLights],
     \* a glass sphere on the ray of pixel (0, 0), a sphere between it and
     \* the first light, a second light in the clear
     [spheres |-> <<Sphere(Vec(-1335, 1335, -4630), 1000, "glass"),
                    Sphere(Vec(-1000, 4000, -3000), 1000, "ivory"),
                    Sphere(Vec(1600, 1600, -5500), 1200, "mirror")>>,
      lights |-> <<Light(Vec(-1000, 9000, -2000), 1500),
                   Light(Vec(3000, 0, 5000), 1800)>>],
     \* an ivory sphere on the ray of pixel (0, 0), a light 1300 units in
     \* front of it and a sphere of radius 50 on the way, 1100 units out
     [spheres |-> <<Sphere(Vec(-1335, 1335, -4630), 1000, "ivory"),
                    Sphere(Vec(-1068, 1068, 1096296), 50000, "rubber")>>,
      lights |-> <<Light(Vec(-1068, 1068, 1296296), 1500)>>]}

\* lines 759-761: the world of main.cpp
ProgramWorld ==
    <<[center |-> Vec(0, 0, -1000), radius |-> 500],
      [center |-> Vec(0, -100500, -1000), radius |-> 100000]>>

WorldsB ==
    {ProgramWorld,
     \* one sphere that encloses the camera: every ray hits it
     <<[center |-> Vec(0, 0, -1000), radius |-> 10000]>>}

\* the generator's state when the program starts
Seeds == {0}

IdleProbe == [stage |-> "idle"]

InitA ==
    /\ policy = "A"
    /\ \E sc \in ScenesA : spheres = sc.spheres /\ lights = sc.lights
    /\ max_depth = 0 /\ gen = 0 /\ arg_order = TRUE /\ s = 0 /\ color = Black
    /\ rendered_y = spheres[1].center.y

InitProgram ==
    /\ pc = "pixel" /\ x = 0 /\ y = 0
    /\ stack = <<>>
    /\ pixel_buffer = [i \in Cells |-> Indeterminate]
    /\ quit = FALSE
    /\ written = [i \in Cells |-> <<>>]
    /\ primary = 0
    /\ access = [p \in Pixels |-> NoAccess]
    /\ presented = [shown |-> FALSE, buffer |-> pixel_buffer, center_y |-> 0]
    /\ probe = IdleProbe

InitB ==
    /\ policy = "B"
    /\ spheres \in WorldsB /\ lights = <<>>
    /\ max_depth \in 0 .. MaxBudget
    /\ gen \in Seeds /\ arg_order \in BOOLEAN
    /\ s = 0 /\ color = Black
    /\ rendered_y = spheres[1].center.y

Init == (InitA \/ InitB) /\ InitProgram

Next ==
    \/ A_PixelStart \/ A_CallHit \/ A_CallMiss \/ A_ReflectReturn
    \/ A_RefractReturn \/ A_PixelDone \/ A_MainLoop
    \/ B_PixelStart \/ B_SampleStart \/ B_Exhausted \/ B_Hit \/ B_Miss
    \/ B_Reject \/ B_Accept \/ B_Return \/ B_SampleDone \/ B_PixelDone
    \/ B_MainLoop
    \/ MainExit

Spec == Init /\ [][Next]_vars

\* The program is one thread that takes its next step whenever it has one.
\* Policy B starts with the largest budget and one order of evaluation.
LiveInit == Init /\ (policy = "B" => max_depth = MaxBudget /\ arg_order)
LiveSpec == LiveInit /\ [][Next]_vars /\ WF_vars(Next)

(***************************************************************************)
(* The recursion                                                           *)
(***************************************************************************)
\* C1: every call of cast_ray and of raytrace returns: an activation record
\* at any height of the stack is eventually popped
CallsReturn == \A k \in 1 .. StackCap : (Len(stack) >= k) ~> (Len(stack) < k)

\* a call made by a call made by the call for the primary ray is in progress
NestedCallInProgress == Len(stack) >= 3 /\ stack[Len(stack)].stage = "call"

\* C2: in Policy A the call at height k of the stack has depth k - 1, at
\* most 5; the scene is intersected and the hit shaded only at depths 0 to
\* 4; the call at depth 5 makes no call and returns the background colour
DepthCapA ==
    policy = "A" =>
        \A k \in 1 .. Len(stack) :
            /\ stack[k].depth = k - 1 /\ stack[k].depth <= 5
            /\ stack[k].tested => stack[k].depth <= 4
            /\ stack[k].seen # <<>> => stack[k].depth <= 4
            /\ (stack[k].depth <= 4 /\ stack[k].stage # "call") => stack[k].tested
            /\ stack[k].depth = 5 =>
                   /\ k = Len(stack)
                   /\ stack[k].stage \in {"call", "ret"}
                   /\ stack[k].stage = "ret" => stack[k].color = BackgroundA

\* a ray of the sixth generation has returned
DepthFiveReturned ==
    /\ policy = "A" /\ Len(stack) = 6
    /\ stack[6].depth = 5 /\ stack[6].stage = "ret" /\ ~stack[6].tested

\* C3: in Policy B with max_depth = 0 no call of raytrace tests the world,
\* every call returns black and every pixel written is red = green = blue = 0
BlackAtZeroBudget ==
    (policy = "B" /\ max_depth = 0) =>
        /\ \A k \in 1 .. Len(stack) :
               ~stack[k].tested /\ stack[k].color = Black
        /\ \A p \in Pixels : ObjSpheres \notin access[p].reads
        /\ \A i \in Cells :
               written[i] # <<>> => pixel_buffer[i] = [r |-> 0, g |-> 0, b |-> 0]

\* the pass over the two spheres of the program has ended with max_depth = 0
ZeroBudgetFrameDone ==
    /\ policy = "B" /\ max_depth = 0 /\ pc = "main" /\ spheres = ProgramWorld
    /\ \A i \in Cells : pixel_buffer[i] = [r |-> 0, g |-> 0, b |-> 0]

(***************************************************************************)
(* Frame assembly                                                          *)
(***************************************************************************)
\* the pixels the pass has finished, in the order of the loops
PixelsDone == IF pc \in {"main", "exit"} THEN Width * Height ELSE y * Width + x

\* the statement of C6 as the specification has it: no shared object that
\* the computation of one pixel writes is read or written by the
\* computation of another
PixelsShareNothingWritten ==
    \A p, q \in Pixels :
        p # q => access[p].writes \cap (access[q].reads \cup access[q].writes) = {}

\* C6: the computation of pixel (x, y) reads only the spheres and the
\* lights and writes only cell x + y * Width of the buffer, but for the
\* generator of random_float, which in Policy B it reads and writes
PixelsShareOnlyGenerator ==
    \A p \in Pixels :
        LET shared == IF policy = "B" THEN {ObjGenerator} ELSE {}
        IN  /\ access[p].reads \subseteq {ObjSpheres, ObjLights} \cup shared
            /\ access[p].writes \subseteq {ObjPixel(p[1] + p[2] * Width)} \cup shared

\* two pixels of Policy B have both drawn from the generator and written
\* their cells
TwoPixelsDrewAndWrote ==
    /\ policy = "B" /\ Width >= 2
    /\ access[<<0, 0>>].writes = {ObjGenerator, ObjPixel(0)}
    /\ access[<<1, 0>>].writes = {ObjGenerator, ObjPixel(1)}

\* C7: the pass writes cell x + y * Width for pixel (x, y), inside the
\* buffer, once, in the order of the loops, after 1 primary ray in Policy A
\* and 100 in Policy B; when the pass has ended every cell has been written
EachCellWrittenOnce ==
    /\ DOMAIN written = Cells
    /\ pc \in {"pixel", "cast", "samples", "trace"} =>
           x \in 0 .. (Width - 1) /\ y \in 0 .. (Height - 1)
    /\ \A i \in Cells :
           IF i < PixelsDone
           THEN /\ written[i] = <<IF policy = "A" THEN 1 ELSE 100>>
                /\ pixel_buffer[i].r \in 0 .. 255
                /\ pixel_buffer[i].g \in 0 .. 255
                /\ pixel_buffer[i].b \in 0 .. 255
           ELSE written[i] = <<>> /\ pixel_buffer[i] = Indeterminate

\* the pass of Policy B has ended
PassOfBEnded ==
    /\ policy = "B" /\ pc = "main"
    /\ \A i \in Cells : written[i] = <<100>>

\* C9: the buffer that is presented was computed from the scene as it is
\* when it is presented: spheres[0] is where it was when the pass ran
PresentedFrameIsCurrent ==
    presented.shown => presented.center_y = rendered_y
(***************************************************************************)
(* Shadows (Policy A)                                                      *)
(***************************************************************************)
\* the shadow ray that cast_ray sends from the hit of activation record f
\* toward light i meets some sphere nearer than the light
ShadowRayMeetsSphere(f, i) ==
    LET st == shadow_test(f.point, f.N, spheres, lights[i])
    IN  \E k \in 1 .. Len(spheres) :
            LET r == sphere_ray_intersect(spheres[k], st.shadow_origin,
                                          st.light_direction)
            IN  r.ok /\ FLt(r.t0, st.light_distance)

\* the activation records that have run the light loop
Shaded == {k \in 1 .. Len(stack) : Len(stack[k].seen) = Len(lights) /\ lights # <<>>}

\* C5: in Policy A, a light whose shadow ray meets a sphere nearer than the
\* light is skipped and adds nothing to the diffuse or the specular intensity
\* of the hit
OccludedLightAddsNothing ==
    policy = "A" =>
        \A k \in Shaded : \A i \in 1 .. Len(lights) :
            ShadowRayMeetsSphere(stack[k], i) =>
                /\ stack[k].seen[i].skipped
                /\ stack[k].seen[i].diffuse = 0
                /\ stack[k].seen[i].specular = 0

(***************************************************************************)
(* The intersection routines on their own: scene_intersect and world::hit  *)
(* applied to a ray and a list of spheres                                  *)
(***************************************************************************)
\* the longest list of spheres handed to the routines
MaxProbeLen == 3

\* along the ray from the origin toward -z: two spheres that are entered at
\* distance 2 at the same point with different normals, one entered at 5,
\* one off the ray, one that holds the origin, one entered at 1050
ProbeSpheres ==
    {Sphere(Vec(0, 0, -3000), 1000, "ivory"),
     Sphere(Vec(750, 0, -3000), 1250, "rubber"),
     Sphere(Vec(0, 0, -6000), 1000, "mirror"),
     Sphere(Vec(5000, 5000, -3000), 500, "glass"),
     Sphere(Vec(0, 0, 0), 1500, "glass"),
     Sphere(Vec(0, 0, -1100000), 50000, "rubber")}

ProbeLists ==
    UNION {{l \in [1 .. n -> ProbeSpheres] :
               \A i, j \in 1 .. n : i # j => l[i] # l[j]} : n \in 1 .. MaxProbeLen}

\* a ray toward -z, a ray whose direction has zero length, an oblique ray
ProbeRays ==
    {Ray(Vec(0, 0, 0), Vec(0, 0, -Q)),
     Ray(Vec(0, 0, 0), Vec(0, 0, 0)),
     Ray(Vec(0, 0, 0), Vec(0, 600, -800))}

\* the upper ends of the interval handed to world::hit
ProbeTMax == {TMax, 2 * Q}

HitInit ==
    /\ policy \in {"A", "B"}
    /\ spheres \in ProbeLists /\ lights = <<>>
    /\ max_depth = 0 /\ gen = 0 /\ arg_order = TRUE /\ s = 0 /\ color = Black
    /\ rendered_y = spheres[1].center.y
    /\ pc = "probe" /\ x = 0 /\ y = 0
    /\ stack = <<>>
    /\ pixel_buffer = [i \in Cells |-> Indeterminate]
    /\ quit = FALSE
    /\ written = [i \in Cells |-> <<>>]
    /\ primary = 0
    /\ access = [p \in Pixels |-> NoAccess]
    /\ presented = [shown |-> FALSE, buffer |-> pixel_buffer, center_y |-> 0]
    /\ \E r \in ProbeRays, t \in (IF policy = "A" THEN {TMax} ELSE ProbeTMax) :
           probe = [stage |-> "ready", ray |-> r, t_max |-> t]

\* lines 147-167: scene_intersect on the list; each: what sphere_ray_intersect
\* says of every sphere of the list on its own
A_Resolve ==
    /\ policy = "A" /\ pc = "probe" /\ probe.stage = "ready"
    /\ \E si \in {scene_intersect(probe.ray.origin, probe.ray.direction, spheres)} :
           probe' = [stage |-> "done", ray |-> probe.ray, t_max |-> probe.t_max,
                     found |-> si.ok, distance |-> si.spheres_dist,
                     point |-> si.hit, normal |-> si.N, material |-> si.material,
                     prim |-> si.prim,
                     each |-> [i \in 1 .. Len(spheres) |->
                                  sphere_ray_intersect(spheres[i], probe.ray.origin,
                                                       probe.ray.direction)]]
    /\ UNCHANGED <<scene, arg_order, gen, pc, x, y, s, color, stack, pixel_buffer, quit,
                   written, primary, access, rendered_y, presented>>

\* lines 627-644: world::hit on the list; each: what sphere::hit says of
\* every sphere of the list on its own, over the whole interval
B_Resolve ==
    /\ policy = "B" /\ pc = "probe" /\ probe.stage = "ready"
    /\ \E wh \in {world_hit(spheres, probe.ray, TMin, probe.t_max, NoRecord)} :
           probe' = [stage |-> "done", ray |-> probe.ray, t_max |-> probe.t_max,
                     found |-> wh.ok, distance |-> wh.record.distance,
                     point |-> wh.record.point, normal |-> wh.record.normal,
                     material |-> "none", prim |-> wh.prim,
                     front_face |-> wh.record.front_face,
                     each |-> [i \in 1 .. Len(spheres) |->
                                  sphere_hit(spheres[i], probe.ray, TMin, probe.t_max,
                                             NoRecord)]]
    /\ UNCHANGED <<scene, arg_order, gen, pc, x, y, s, color, stack, pixel_buffer, quit,
                   written, primary, access, rendered_y, presented>>

HitNext == A_Resolve \/ B_Resolve

HitSpec == HitInit /\ [][HitNext]_vars

(***************************************************************************)
(* Scene resolution: orderings and ties                                    *)
(***************************************************************************)
\* the orderings of a list
Orderings(list) ==
    {[i \in 1 .. Len(list) |-> list[f[i]]] :
        f \in {g \in [1 .. Len(list) -> 1 .. Len(list)] :
                  \A i, j \in 1 .. Len(list) : i # j => g[i] # g[j]}}

\* what scene resolution returns for the ray and interval of the query on
\* a list
Resolved(list) ==
    IF policy = "A"
    THEN LET si == scene_intersect(probe.ray.origin, probe.ray.direction, list)
         IN  [found |-> si.ok, distance |-> si.spheres_dist, point |-> si.hit,
              normal |-> si.N, material |-> si.material]
    ELSE LET wh == world_hit(list, probe.ray, TMin, probe.t_max, NoRecord)
         IN  [found |-> wh.ok, distance |-> wh.record.distance,
              point |-> wh.record.point, normal |-> wh.record.normal,
              material |-> "none"]

\* sphere i of the list is hit on its own, and at what distance
HitAlone(i) == probe.each[i].ok
DistanceAlone(i) ==
    IF policy = "A" THEN probe.each[i].t0 ELSE probe.each[i].record.distance

\* the spheres of the list that are hit at the distance that was returned
AtNearest == {i \in 1 .. Len(spheres) : HitAlone(i) /\ DistanceAlone(i) = probe.distance}

\* the statement of C4 as the specification has it: every ordering of the
\* list returns the same answer, distance, point, normal and material
SameHitInEveryOrder ==
    probe.stage = "done" =>
        \A list \in Orderings(spheres) :
            LET r == Resolved(list)
            IN  /\ r.found = probe.found
                /\ probe.found =>
                       /\ r.distance = probe.distance /\ r.point = probe.point
                       /\ r.normal = probe.normal /\ r.material = probe.material

\* C4: every ordering of the list returns the same hit/no-hit answer and, on
\* a hit, the same distance and point; it returns the same normal and
\* material as well unless two spheres are hit at the nearest distance
SameNearestInEveryOrder ==
    probe.stage = "done" =>
        \A list \in Orderings(spheres) :
            LET r == Resolved(list)
            IN  /\ r.found = probe.found
                /\ probe.found =>
                       /\ r.distance = probe.distance /\ r.point = probe.point
                       /\ Cardinality(AtNearest) < 2 =>
                              /\ r.normal = probe.normal
                              /\ r.material = probe.material

\* a list of three spheres whose nearest hit is the last of the list, and
\* is the only one at that distance
NearestIsLastOfThree ==
    /\ probe.stage = "done" /\ probe.found
    /\ Len(spheres) = 3 /\ probe.prim = 3
    /\ Cardinality({i \in 1 .. 3 : HitAlone(i)}) >= 2
    /\ AtNearest = {3}

\* the spheres hit at the nearest distance, that distance being a number
Tied == {i \in AtNearest : IsFinite(probe.distance)}

\* C10: of the spheres hit at the same nearest distance, the hit of the one
\* that comes first in the list is returned
TieGoesToFirstTested ==
    (probe.stage = "done" /\ probe.found /\ Cardinality(Tied) >= 2) =>
        \A i \in Tied : probe.prim <= i

\* C8: a ray whose direction has zero length is reported as hitting nothing,
\* and sphere::hit does not divide by a = dot(direction, direction) = 0
ZeroDirectionIsNoHit ==
    (probe.stage = "done" /\ probe.ray.direction = Vec(0, 0, 0)) =>
        /\ ~probe.found
        /\ \A i \in 1 .. Len(spheres) :
               /\ ~HitAlone(i)
               /\ policy = "B" => ~probe.each[i].divided

(***************************************************************************)
(* Scene resolution: the nearest of all hits                               *)
(***************************************************************************)
\* the distance is inside the interval the routine was asked about: not
\* negative in Policy A, in [t_min, t_max] in Policy B
InInterval(d) ==
    IF policy = "A" THEN FGe(d, 0) ELSE FGe(d, TMin) /\ FLe(d, probe.t_max)

\* the spheres of the list that are, on their own, hit inside the interval
ValidHits == {i \in 1 .. Len(spheres) : HitAlone(i) /\ InInterval(DistanceAlone(i))}

\* C11: scene resolution reports a hit exactly when some sphere of the list
\* is hit inside the interval, and the distance it reports is the smallest of
\* the distances at which the spheres are hit inside the interval
NearestOfAllIsReturned ==
    probe.stage = "done" =>
        /\ probe.found <=> ValidHits # {}
        /\ probe.found =>
               /\ \E i \in ValidHits : DistanceAlone(i) = probe.distance
               /\ \A i \in ValidHits : FLe(probe.distance, DistanceAlone(i))

(***************************************************************************)
(* sphere::hit: the root it chooses                                        *)
(***************************************************************************)
\* C12: sphere::hit returns no hit and leaves the record unwritten when the
\* discriminant is negative or both roots are outside [t_min, t_max];
\* otherwise it returns a hit at the smaller root when that root is in
\* [t_min, t_max] and at the larger root when only that one is, so that the
\* distance of every hit is in [t_min, t_max]
SphereHitChoosesRootInInterval ==
    (probe.stage = "done" /\ policy = "B") =>
        \A i \in 1 .. Len(spheres) :
            LET e == probe.each[i]
                smaller == e.roots[1]
                larger == e.roots[2]
            IN  IF \/ FLt(e.discriminant, 0)
                   \/ ~InInterval(smaller) /\ ~InInterval(larger)
                THEN ~e.ok /\ e.record = NoRecord
                ELSE /\ e.ok
                     /\ e.record.distance =
                            (IF InInterval(smaller) THEN smaller ELSE larger)
                     /\ InInterval(e.record.distance)

(***************************************************************************)
(* The normal of a hit                                                     *)
(***************************************************************************)
\* dot(ray direction, normal) of the hit that was returned
RayDotNormal ==
    IF policy = "A" THEN vec3_dot(probe.ray.direction, probe.normal)
    ELSE glm_dot(probe.ray.direction, probe.normal)

\* the ray starts inside sphere i of the list
OriginInside(i) ==
    FLt(vec3_length(vec3_sub(spheres[i].center, probe.ray.origin)), spheres[i].radius)

\* the outward normal of sphere i at the point that was returned
Outward(i) ==
    IF policy = "A" THEN vec3_normalize(vec3_sub(probe.point, spheres[i].center))
    ELSE glm_div(glm_sub(probe.point, spheres[i].center), spheres[i].radius)

\* the statement of C13 as the specification has it: the normal of every
\* hit that is returned faces the incoming ray, dot(direction, normal) <= 0,
\* under both policies
NormalFacesRay ==
    (probe.stage = "done" /\ probe.found) => FLe(RayDotNormal, 0)

\* C13: under Policy B the normal of a hit never points along the ray: it
\* is the outward normal when front_face is set and the negated outward
\* normal otherwise, and front_face is not set when the ray starts inside the
\* sphere.  Under Policy A the normal is always the outward normal, never
\* flipped: it does not point along the ray when the ray starts outside the
\* sphere and does not face the ray when the ray starts inside it
NormalFlippedOnlyBySetFaceNormal ==
    (probe.stage = "done" /\ probe.found) =>
        IF policy = "B"
        THEN /\ ~FGt(RayDotNormal, 0)
             /\ probe.normal = (IF probe.front_face THEN Outward(probe.prim)
                                ELSE glm_neg(Outward(probe.prim)))
             /\ OriginInside(probe.prim) => ~probe.front_face
        ELSE /\ probe.normal = Outward(probe.prim)
             /\ OriginInside(probe.prim) => ~FLt(RayDotNormal, 0)
             /\ ~OriginInside(probe.prim) => ~FGt(RayDotNormal, 0)

\* Policy B returned a hit on the sphere the ray starts in, with the normal
\* flipped to face the ray
FlippedNormalInsideSphere ==
    /\ probe.stage = "done" /\ probe.found /\ policy = "B"
    /\ OriginInside(probe.prim) /\ ~probe.front_face
    /\ probe.normal = glm_neg(Outward(probe.prim))
    /\ FLt(RayDotNormal, 0)

=============================================================================
